---- MODULE Spec2Model ----
(***************************************************************************)
(* The HTTP-to-workflow bridge of new-ui/backend/main.py, the worker       *)
(* bootstrap of openai_agents/run_worker.py, and the workflow engine they  *)
(* talk to.                                                                *)
(*                                                                         *)
(* The router is one asyncio event loop: the code of a handler between two *)
(* awaits of an engine call runs atomically, so every action below is one  *)
(* such segment of one handler, together with the engine call that ends    *)
(* the await before it.  A request lives in a slot from its arrival until  *)
(* its response has been delivered.                                        *)
(*                                                                         *)
(* InteractiveResearchWorkflow and its status object are defined in        *)
(* openai_agents/workflows; the Wf* operators below follow the             *)
(* specification's sections 3, 4.1 and 8.                                  *)
(***************************************************************************)
EXTENDS Integers, Sequences, FiniteSets, TLC

\* ---------------------------------------------------------------- bounds
\* Clarification questions a workflow may ask.
MaxQuestions == 1

\* The event loop interleaves two requests at a time; a slot is taken from a
\* request's arrival until its response is delivered, then taken again.
Slots == { 1, 2 }

\* ---------------------------------------------------------------- values
\* Optional[T]: None is the empty sequence, Some(x) a one-element sequence.
None == <<>>
Some(x) == <<x>>

\* Texts are sequences of characters; " " is the only whitespace used.
Texts == { <<>>, <<" ">>, <<" ", "a", " ">> }

\* Answer texts.
Answers == { <<" ", "b">> }

\* Ids uuid4().hex[:8] may produce, and one id it never produces.
GeneratedIds == { "interactive-research-1" }
WorkflowIds == GeneratedIds \cup { "no-such-workflow" }

\* Values of the TEMPORAL_TASK_QUEUE setting.
TaskQueues == { "research-queue", "other-queue" }

\* str.strip(): drop the whitespace at both ends.
RECURSIVE strip(_)
strip(s) ==
    IF s = <<>> THEN s
    ELSE IF Head(s) = " " THEN strip(Tail(s))
    ELSE IF s[Len(s)] = " " THEN strip(SubSeq(s, 1, Len(s) - 1))
    ELSE s

VARIABLES
    TEMPORAL_TASK_QUEUE,  \* the router's task-queue setting
    temporal_client,      \* the memoized connection: None or Some(client)
    connects,             \* Client.connect calls of the router that returned
    worker,               \* the worker process: "down" or "polling"
    workflows,            \* the engine: workflow id -> latest execution
    reqs                  \* the router's requests in flight, by slot

vars == <<TEMPORAL_TASK_QUEUE, temporal_client, connects, worker, workflows, reqs>>

\* ---------------------------------------------------------------- engine
NoWf == [exec |-> "NONE"]

\* The task queue the worker polls.
WorkerTaskQueue == "research-queue"

\* The i-th clarification question of a workflow (0-based).
QuestionText(i) == <<"Q", i>>

\* ResearchInteraction.get_current_question()
get_current_question(wf) ==
    IF wf.current_question_index < Len(wf.clarification_questions)
    THEN Some(wf.clarification_questions[wf.current_question_index + 1])
    ELSE None

\* A fresh execution: started, start_research not yet processed.
NewRun(tq) ==
    [ exec |-> "RUNNING",
      task_queue |-> tq,
      status |-> "pending",
      original_query |-> None,
      clarification_questions |-> <<>>,
      current_question_index |-> 0,
      current_question |-> None,
      clarification_responses |-> {} ]

\* A worker is polling the workflow's task queue.
Served(wf) == worker = "polling" /\ wf.task_queue = WorkerTaskQueue

\* InteractiveResearchWorkflow.start_research(UserQueryInput(query)) with n
\* clarification questions produced.
WfStartResearch(wf, query, n) ==
    LET qs == [i \in 1..n |-> QuestionText(i - 1)]
        w  == [wf EXCEPT !.original_query = Some(query),
                         !.clarification_questions = qs,
                         !.current_question_index = 0,
                         !.status = "awaiting_clarifications"]
    IN [w EXCEPT !.current_question = get_current_question(w)]

\* The acceptance logic of provide_single_clarification: "ok" or the error.
WfValidateClarification(wf, index) ==
    IF index < 0 \/ index >= Len(wf.clarification_questions) THEN "ValidationError"
    ELSE IF wf.status # "awaiting_clarifications" THEN "StateError"
    ELSE "ok"

\* InteractiveResearchWorkflow.provide_single_clarification, once accepted.
WfProvideSingleClarification(wf, index, answer) ==
    LET kept == { p \in wf.clarification_responses : p[1] # index }
        w == [wf EXCEPT !.clarification_responses = kept \cup { <<index, answer>> },
                        !.current_question_index = @ + 1]
        v == [w EXCEPT !.status =
                 IF w.current_question_index >= Len(w.clarification_questions)
                 THEN "researching" ELSE @]
    IN [v EXCEPT !.current_question = get_current_question(v)]

\* ---------------------------------------------------------------- router
Idle ==
    [ op |-> "none", pc |-> "idle", workflow_id |-> "", index |-> 0, text |-> <<>>,
      client |-> None, calls |-> <<>>, desc |-> "", resp |-> None ]

NewRequest(op, id, index, text) ==
    [Idle EXCEPT !.op = op, !.workflow_id = id, !.index = index, !.text = text]

\* The engine call a handler issues first, once it holds a client.
FirstCall(op) ==
    CASE op = "start"  -> "start_workflow"
      [] op = "status" -> "query"
      [] op = "answer" -> "execute_update"
      [] op = "result" -> "describe"

\* A response built by the handler itself.
Return(body) == [code |-> 200, detail |-> "", error |-> "", body |-> Some(body)]
\* raise HTTPException(status_code, detail)
HTTPException(code, detail) ==
    [code |-> code, detail |-> detail, error |-> "HTTPException", body |-> None]
\* An exception no handler catches: the app registers no exception handler,
\* so the framework answers 500.
Unhandled(error) ==
    [code |-> 500, detail |-> "Internal Server Error", error |-> error, body |-> None]

Finish(r, resp) == [r EXCEPT !.pc = "done", !.resp = Some(resp)]
Called(r, call) == [r EXCEPT !.calls = Append(@, call)]

Init ==
    /\ TEMPORAL_TASK_QUEUE \in TaskQueues
    /\ temporal_client = None
    /\ connects = 0
    /\ worker = "down"
    /\ workflows = [id \in GeneratedIds |-> NoWf]
    /\ reqs = [s \in Slots |-> Idle]

Known(id) == id \in GeneratedIds /\ workflows[id] # NoWf

\* get_temporal_client(), up to its await: the memoized client if there is
\* one, else the handler suspends in Client.connect.
Enter(s, r) ==
    /\ reqs[s] = Idle
    /\ reqs' = [reqs EXCEPT ![s] =
           IF temporal_client # None
           THEN [r EXCEPT !.client = temporal_client, !.pc = FirstCall(r.op)]
           ELSE [r EXCEPT !.pc = "connect"]]
    /\ UNCHANGED <<TEMPORAL_TASK_QUEUE, temporal_client, connects, worker, workflows>>

\* get_temporal_client(), from the return of Client.connect (the cloud and
\* the local branch alike): the global is assigned the new client and the
\* handler goes on with it.
get_temporal_client(s) ==
    /\ reqs[s].pc = "connect"
    /\ LET c == Some([conn |-> connects + 1]) IN
         /\ temporal_client' = c
         /\ reqs' = [reqs EXCEPT ![s] =
                [Called(@, "connect") EXCEPT !.client = c, !.pc = FirstCall(reqs[s].op)]]
    /\ connects' = connects + 1
    /\ UNCHANGED <<TEMPORAL_TASK_QUEUE, worker, workflows>>

\* Client.connect raises: the global stays unset, the handler's exception is
\* not caught.
connect_failed(s) ==
    /\ reqs[s].pc = "connect"
    /\ reqs' = [reqs EXCEPT ![s] = Finish(Called(@, "connect"), Unhandled("ConnectionError"))]
    /\ UNCHANGED <<TEMPORAL_TASK_QUEUE, temporal_client, connects, worker, workflows>>

\* An engine call fails in transit.
rpc_failed(s) ==
    /\ reqs[s].pc \in {"start_workflow", "execute_update", "query", "describe", "result"}
    /\ reqs' = [reqs EXCEPT ![s] = Finish(Called(@, @.pc), Unhandled("RPCError"))]
    /\ UNCHANGED <<TEMPORAL_TASK_QUEUE, temporal_client, connects, worker, workflows>>

\* POST /api/start-research arrives.
start_research(s) ==
    \E q \in Texts : Enter(s, NewRequest("start", "", 0, q))

\* start_research returning as soon as the workflow is started, without
\* waiting for the start_research update.
start_research_fire_and_forget(s) ==
    /\ reqs[s].op = "start" /\ reqs[s].pc = "start_workflow"
    /\ \E id \in GeneratedIds :
         /\ ~(workflows[id] # NoWf /\ workflows[id].exec = "RUNNING")
         /\ workflows' = [workflows EXCEPT ![id] = NewRun(TEMPORAL_TASK_QUEUE)]
         /\ reqs' = [reqs EXCEPT ![s] =
                Finish(Called([@ EXCEPT !.workflow_id = id], "start_workflow"),
                       Return([workflow_id |-> id, status |-> "started"]))]
    /\ UNCHANGED <<TEMPORAL_TASK_QUEUE, temporal_client, connects, worker>>

\* client.start_workflow(..., id=workflow_id, task_queue=TEMPORAL_TASK_QUEUE)
start_research_start_workflow(s) ==
    /\ reqs[s].op = "start" /\ reqs[s].pc = "start_workflow"
    /\ \E id \in GeneratedIds :
         IF workflows[id] # NoWf /\ workflows[id].exec = "RUNNING"
         THEN /\ reqs' = [reqs EXCEPT ![s] =
                     Finish(Called([@ EXCEPT !.workflow_id = id], "start_workflow"),
                            Unhandled("WorkflowAlreadyStartedError"))]
              /\ UNCHANGED workflows
         ELSE /\ workflows' = [workflows EXCEPT ![id] = NewRun(TEMPORAL_TASK_QUEUE)]
              /\ reqs' = [reqs EXCEPT ![s] =
                     [Called(@, "start_workflow") EXCEPT !.workflow_id = id,
                                                        !.pc = "execute_update"]]
    /\ UNCHANGED <<TEMPORAL_TASK_QUEUE, temporal_client, connects, worker>>

\* start_research forwarding the query as received, without strip().
start_research_execute_update_unstripped(s) ==
    /\ reqs[s].op = "start" /\ reqs[s].pc = "execute_update"
    /\ LET id == reqs[s].workflow_id
           wf == workflows[id] IN
         /\ wf # NoWf /\ wf.exec = "RUNNING" /\ wf.status = "pending" /\ Served(wf)
         /\ \E n \in 0..MaxQuestions :
              workflows' = [workflows EXCEPT ![id] = WfStartResearch(wf, reqs[s].text, n)]
         /\ reqs' = [reqs EXCEPT ![s] =
                Finish(Called(@, "execute_update"),
                       Return([workflow_id |-> id, status |-> "started"]))]
    /\ UNCHANGED <<TEMPORAL_TASK_QUEUE, temporal_client, connects, worker>>

\* handle.execute_update(start_research, UserQueryInput(query.strip())) is
\* processed by the workflow and the handler returns.
start_research_execute_update(s) ==
    /\ reqs[s].op = "start" /\ reqs[s].pc = "execute_update"
    /\ LET id == reqs[s].workflow_id
           wf == workflows[id] IN
         /\ wf # NoWf /\ wf.exec = "RUNNING" /\ wf.status = "pending" /\ Served(wf)
         /\ \E n \in 0..MaxQuestions :
              workflows' = [workflows EXCEPT ![id] =
                               WfStartResearch(wf, strip(reqs[s].text), n)]
         /\ reqs' = [reqs EXCEPT ![s] =
                Finish(Called(@, "execute_update"),
                       Return([workflow_id |-> id, status |-> "started"]))]
    /\ UNCHANGED <<TEMPORAL_TASK_QUEUE, temporal_client, connects, worker>>

\* GET /api/status/{workflow_id} arrives.
get_status(s) ==
    \E id \in WorkflowIds : Enter(s, NewRequest("status", id, 0, <<>>))

\* The status document get_status builds from the queried status object.
StatusResponse(id, status) ==
    LET response ==
          [ workflow_id |-> id,
            status |-> status.status,
            original_query |-> status.original_query,
            current_question |-> status.current_question,
            current_question_index |-> status.current_question_index,
            total_questions |-> Len(status.clarification_questions),
            clarification_responses |-> status.clarification_responses ]
    IN IF status.status = "awaiting_clarifications"
       THEN [response EXCEPT !.current_question = get_current_question(status)]
       ELSE response

\* handle.query(get_status) returns and get_status answers.
get_status_query(s) ==
    /\ reqs[s].op = "status" /\ reqs[s].pc = "query"
    /\ LET id == reqs[s].workflow_id IN
         IF ~Known(id)
         THEN reqs' = [reqs EXCEPT ![s] = Finish(Called(@, "query"), Unhandled("RPCError: NOT_FOUND"))]
         ELSE /\ Served(workflows[id])
              /\ reqs' = [reqs EXCEPT ![s] =
                     Finish(Called(@, "query"), Return(StatusResponse(id, workflows[id])))]
    /\ UNCHANGED <<TEMPORAL_TASK_QUEUE, temporal_client, connects, worker, workflows>>

\* POST /api/answer/{workflow_id}/{current_question_index} arrives.
submit_answer(s) ==
    \E id \in WorkflowIds, i \in 0..MaxQuestions, a \in Answers :
        Enter(s, NewRequest("answer", id, i, a))

\* submit_answer catching the update's failure and going on to the query.
submit_answer_execute_update_lenient(s) ==
    /\ reqs[s].op = "answer" /\ reqs[s].pc = "execute_update"
    /\ LET id == reqs[s].workflow_id IN
         /\ Known(id)
         /\ workflows[id].exec = "RUNNING" /\ Served(workflows[id])
         /\ workflows' =
              IF WfValidateClarification(workflows[id], reqs[s].index) = "ok"
              THEN [workflows EXCEPT ![id] =
                       WfProvideSingleClarification(@, reqs[s].index, strip(reqs[s].text))]
              ELSE workflows
         /\ reqs' = [reqs EXCEPT ![s] = [Called(@, "execute_update") EXCEPT !.pc = "query"]]
    /\ UNCHANGED <<TEMPORAL_TASK_QUEUE, temporal_client, connects, worker>>

\* handle.execute_update(provide_single_clarification, ...) returns or raises.
submit_answer_execute_update(s) ==
    /\ reqs[s].op = "answer" /\ reqs[s].pc = "execute_update"
    /\ LET id == reqs[s].workflow_id IN
         IF ~Known(id)
         THEN /\ reqs' = [reqs EXCEPT ![s] =
                     Finish(Called(@, "execute_update"), Unhandled("RPCError: NOT_FOUND"))]
              /\ UNCHANGED workflows
         ELSE LET wf == workflows[id]
                  verdict == WfValidateClarification(wf, reqs[s].index) IN
              /\ wf.exec = "RUNNING" /\ Served(wf)
              /\ IF verdict = "ok"
                 THEN /\ workflows' = [workflows EXCEPT ![id] =
                             WfProvideSingleClarification(wf, reqs[s].index, strip(reqs[s].text))]
                      /\ reqs' = [reqs EXCEPT ![s] =
                             [Called(@, "execute_update") EXCEPT !.pc = "query"]]
                 ELSE /\ reqs' = [reqs EXCEPT ![s] =
                             Finish(Called(@, "execute_update"), Unhandled(verdict))]
                      /\ UNCHANGED workflows
    /\ UNCHANGED <<TEMPORAL_TASK_QUEUE, temporal_client, connects, worker>>

\* questions_remaining counted from the question after the current one.
AnswerResponseOffByOne(status) ==
    [ status |-> "accepted",
      workflow_status |-> status.status,
      questions_remaining |->
          Len(status.clarification_questions) - (status.current_question_index + 1) ]

\* The document submit_answer returns.
AnswerResponse(status) ==
    [ status |-> "accepted",
      workflow_status |-> status.status,
      questions_remaining |->
          Len(status.clarification_questions) - status.current_question_index ]

\* handle.query(get_status) returns and submit_answer answers.
submit_answer_query(s) ==
    /\ reqs[s].op = "answer" /\ reqs[s].pc = "query"
    /\ LET id == reqs[s].workflow_id IN
         /\ Known(id) /\ Served(workflows[id])
         /\ reqs' = [reqs EXCEPT ![s] =
                Finish(Called(@, "query"), Return(AnswerResponse(workflows[id])))]
    /\ UNCHANGED <<TEMPORAL_TASK_QUEUE, temporal_client, connects, worker, workflows>>

\* GET /api/result/{workflow_id} arrives.
get_result(s) ==
    \E id \in WorkflowIds : Enter(s, NewRequest("result", id, 0, <<>>))

\* get_result without the completion check: it goes on to handle.result().
get_result_describe_unchecked(s) ==
    /\ reqs[s].op = "result" /\ reqs[s].pc = "describe"
    /\ Known(reqs[s].workflow_id)
    /\ reqs' = [reqs EXCEPT ![s] =
           [Called(@, "describe") EXCEPT !.desc = workflows[reqs[s].workflow_id].exec,
                                         !.pc = "result"]]
    /\ UNCHANGED <<TEMPORAL_TASK_QUEUE, temporal_client, connects, worker, workflows>>

\* handle.describe() returns: 400 unless the execution is COMPLETED.
get_result_describe(s) ==
    /\ reqs[s].op = "result" /\ reqs[s].pc = "describe"
    /\ LET id == reqs[s].workflow_id IN
         IF ~Known(id)
         THEN reqs' = [reqs EXCEPT ![s] = Finish(Called(@, "describe"), Unhandled("RPCError: NOT_FOUND"))]
         ELSE LET r == [Called(reqs[s], "describe") EXCEPT !.desc = workflows[id].exec] IN
              reqs' = [reqs EXCEPT ![s] =
                  IF r.desc # "COMPLETED"
                  THEN Finish(r, HTTPException(400, "Research not complete yet"))
                  ELSE [r EXCEPT !.pc = "result"]]
    /\ UNCHANGED <<TEMPORAL_TASK_QUEUE, temporal_client, connects, worker, workflows>>

\* The InteractiveResearchResult of a completed execution.
WfResult(wf) ==
    [ markdown_report |-> <<"report", wf.original_query>>,
      short_summary |-> <<"summary", wf.original_query>>,
      follow_up_questions |-> <<>> ]

\* handle.result() returns the result of the latest execution, or raises.
get_result_result(s) ==
    /\ reqs[s].op = "result" /\ reqs[s].pc = "result"
    /\ LET id == reqs[s].workflow_id
           wf == workflows[id] IN
         /\ wf.exec # "RUNNING"
         /\ reqs' = [reqs EXCEPT ![s] =
                IF wf.exec = "COMPLETED"
                THEN Finish(Called(@, "result"), Return(WfResult(wf)))
                ELSE Finish(Called(@, "result"), Unhandled("WorkflowFailureError"))]
    /\ UNCHANGED <<TEMPORAL_TASK_QUEUE, temporal_client, connects, worker, workflows>>

\* stream_status answering with a status event.
stream_status_event(s) ==
    /\ reqs[s] = Idle
    /\ \E id \in WorkflowIds :
         reqs' = [reqs EXCEPT ![s] =
             Finish(NewRequest("stream", id, 0, <<>>), Return([event |-> "status"]))]
    /\ UNCHANGED <<TEMPORAL_TASK_QUEUE, temporal_client, connects, worker, workflows>>

\* GET /api/stream/{workflow_id}: the whole handler.
stream_status(s) ==
    /\ reqs[s] = Idle
    /\ \E id \in WorkflowIds :
         reqs' = [reqs EXCEPT ![s] =
             Finish(NewRequest("stream", id, 0, <<>>),
                    HTTPException(501, "Temporal integration not configured. See backend/main.py for setup instructions."))]
    /\ UNCHANGED <<TEMPORAL_TASK_QUEUE, temporal_client, connects, worker, workflows>>

\* GET /api/health: the whole handler. Of the settings it echoes, the task
\* queue is the one carried here.
health_check(s) ==
    /\ reqs[s] = Idle
    /\ reqs' = [reqs EXCEPT ![s] =
           Finish(NewRequest("health", "", 0, <<>>),
                  Return([status |-> "healthy", task_queue |-> TEMPORAL_TASK_QUEUE]))]
    /\ UNCHANGED <<TEMPORAL_TASK_QUEUE, temporal_client, connects, worker, workflows>>

\* The workflow, asked no question, goes on to research.
WfProceedToResearch(id) ==
    /\ Known(id)
    /\ LET wf == workflows[id] IN
         /\ wf.exec = "RUNNING" /\ Served(wf)
         /\ wf.status = "awaiting_clarifications"
         /\ wf.current_question_index >= Len(wf.clarification_questions)
         /\ workflows' = [workflows EXCEPT ![id].status = "researching"]
    /\ UNCHANGED <<TEMPORAL_TASK_QUEUE, temporal_client, connects, worker, reqs>>

\* The research finishes and the execution completes with its result.
WfComplete(id) ==
    /\ Known(id)
    /\ LET wf == workflows[id] IN
         /\ wf.exec = "RUNNING" /\ Served(wf)
         /\ wf.status = "researching"
         /\ workflows' = [workflows EXCEPT ![id].status = "complete",
                                           ![id].exec = "COMPLETED"]
    /\ UNCHANGED <<TEMPORAL_TASK_QUEUE, temporal_client, connects, worker, reqs>>

\* The execution fails.
WfFail(id) ==
    /\ Known(id)
    /\ LET wf == workflows[id] IN
         /\ wf.exec = "RUNNING" /\ Served(wf)
         /\ workflows' = [workflows EXCEPT ![id].exec = "FAILED"]
    /\ UNCHANGED <<TEMPORAL_TASK_QUEUE, temporal_client, connects, worker, reqs>>

\* The response reaches the caller; the slot is free again.
respond(s) ==
    /\ reqs[s].pc = "done"
    /\ reqs' = [reqs EXCEPT ![s] = Idle]
    /\ UNCHANGED <<TEMPORAL_TASK_QUEUE, temporal_client, connects, worker, workflows>>

\* run_worker.main(): connect, build the Worker, run.
worker_main ==
    /\ worker = "down"
    /\ worker' = "polling"
    /\ UNCHANGED <<TEMPORAL_TASK_QUEUE, temporal_client, connects, workflows, reqs>>

Next ==
    \/ worker_main
    \/ \E id \in GeneratedIds :
         \/ WfProceedToResearch(id)
         \/ WfComplete(id)
         \/ WfFail(id)
    \/ \E s \in Slots :
         \/ start_research(s)
         \/ get_temporal_client(s)
         \/ connect_failed(s)
         \/ rpc_failed(s)
         \/ start_research_start_workflow(s)
         \/ start_research_execute_update(s)
         \/ get_status(s)
         \/ get_status_query(s)
         \/ submit_answer(s)
         \/ submit_answer_execute_update(s)
         \/ submit_answer_query(s)
         \/ get_result(s)
         \/ get_result_describe(s)
         \/ get_result_result(s)
         \/ stream_status(s)
         \/ health_check(s)
         \/ respond(s)

Spec == Init /\ [][Next]_vars

\* ---------------------------------------------------------------- claims
Resp(s) == reqs[s].resp[1]
Ok(s) == reqs[s].pc = "done" /\ Resp(s).code = 200
Failed(s) == reqs[s].pc = "done" /\ Resp(s).code # 200
Body(s) == Resp(s).body[1]
Calls(s) == { reqs[s].calls[i] : i \in DOMAIN reqs[s].calls }
\* The handler in slot s takes this step.
Steps(s) == reqs[s].op # "none" /\ reqs'[s] # reqs[s] /\ reqs'[s].op = reqs[s].op
\* The failure is the engine call's own (connection or transport), not an
\* answer of the engine or the workflow.
InTransit(s) == Resp(s).error \in {"ConnectionError", "RPCError"}

C1_NotReady ==
    \A s \in Slots :
        (reqs[s].op = "result" /\ reqs[s].desc \notin {"", "COMPLETED"}) =>
            /\ reqs[s].pc = "done"
            /\ Resp(s) = HTTPException(400, "Research not complete yet")
            /\ "result" \notin Calls(s)
C1_NoEffect ==
    \A s \in Slots :
        (reqs[s].op = "result" /\ Steps(s)) =>
            /\ UNCHANGED <<workflows, worker, TEMPORAL_TASK_QUEUE>>
            /\ reqs[s].pc = "describe" => UNCHANGED <<temporal_client, connects>>
\* C1: whenever describe reports an execution status other than COMPLETED,
\* get_result answers 400 "Research not complete yet" without calling
\* handle.result(); no step of get_result changes the engine, and the step
\* that raises the 400 changes nothing but the request itself, so every
\* further poll meets the same state and the same error.
C1_ResultBeforeCompletion == []C1_NotReady /\ [][C1_NoEffect]_vars
\* Two polls of the same running workflow, both answered 400.
C1_Witness ==
    /\ reqs[1].op = "result" /\ reqs[2].op = "result"
    /\ reqs[1].workflow_id = reqs[2].workflow_id
    /\ reqs[1].desc = "RUNNING" /\ reqs[2].desc = "RUNNING"
    /\ Failed(1) /\ Failed(2) /\ Resp(1).code = 400 /\ Resp(1) = Resp(2)

\* C2: for a workflow id the engine does not know, get_status and get_result
\* answer with a 404-class error and no body.
C2_UnknownIdNotFound ==
    \A s \in Slots :
        ( /\ reqs[s].op \in {"status", "result"}
          /\ reqs[s].pc = "done"
          /\ reqs[s].workflow_id \notin GeneratedIds
          /\ ~InTransit(s) ) =>
            /\ Resp(s).code = 404
            /\ Resp(s).body = None

C3_Rejected ==
    \A s \in Slots :
        ( /\ reqs[s].op = "answer" /\ reqs[s].pc = "execute_update" /\ Steps(s)
          /\ Known(reqs[s].workflow_id)
          /\ reqs[s].index >= Len(workflows[reqs[s].workflow_id].clarification_questions) ) =>
            /\ workflows' = workflows
            /\ reqs'[s].pc = "done"
            /\ reqs'[s].resp[1].code # 200
            /\ reqs'[s].resp[1].body = None
            /\ reqs'[s].resp[1].error \in {"ValidationError", "RPCError"}
C4_CurrentQuestionIffAwaiting ==
    \A s \in Slots :
        (reqs[s].op = "status" /\ Ok(s)) =>
            (Body(s).current_question # None <=> Body(s).status = "awaiting_clarifications")

\* The answer handler's last step, and what the status query sees then.
C5_Answered(s) ==
    /\ reqs[s].op = "answer" /\ reqs[s].pc = "query" /\ Steps(s)
    /\ reqs'[s].pc = "done" /\ reqs'[s].resp[1].code = 200
C5_Total(s) == Len(workflows[reqs[s].workflow_id].clarification_questions)
C5_Index(s) == workflows[reqs[s].workflow_id].current_question_index
C5_Remaining(s) == reqs'[s].resp[1].body[1].questions_remaining
C6_ConnectOnce ==
    /\ connects <= 1
    /\ \A s, t \in Slots :
         (reqs[s].client # None /\ reqs[t].client # None) => reqs[s].client = reqs[t].client

C7_NoRouterCheck ==
    \A s \in Slots :
        (reqs[s].op = "start" /\ reqs[s].pc = "done" /\ strip(reqs[s].text) = <<>>) =>
            \/ /\ Resp(s).code = 200
               /\ Body(s) = [workflow_id |-> reqs[s].workflow_id, status |-> "started"]
               /\ reqs[s].workflow_id \in GeneratedIds
            \/ /\ Resp(s).code = 500
               /\ Resp(s).error \in {"ConnectionError", "RPCError", "WorkflowAlreadyStartedError"}
C7_ForwardsEmpty ==
    \A s \in Slots :
        ( /\ reqs[s].op = "start" /\ reqs[s].pc = "execute_update" /\ Steps(s)
          /\ strip(reqs[s].text) = <<>>
          /\ reqs'[s].resp # None /\ reqs'[s].resp[1].code = 200 ) =>
            workflows'[reqs[s].workflow_id].original_query = Some(<<>>)
\* C7: a start request whose query is empty, or empty once stripped, is never
\* refused by the router: it ends in "started" with a workflow id, the start
\* update having carried the empty query, or in a failure of an engine call.
C7_EmptyQueryAccepted == []C7_NoRouterCheck /\ [][C7_ForwardsEmpty]_vars
\* A whitespace-only query answered "started".
C7_Witness ==
    \E s \in Slots :
        /\ reqs[s].op = "start" /\ Ok(s)
        /\ reqs[s].text = <<" ">>
        /\ Body(s).status = "started"

\* C8: get_stream answers 501 whatever the id and the workflow's state, holds
\* no client, issues no engine call and returns no body.
C8_StreamNotImplemented ==
    \A s \in Slots :
        reqs[s].op = "stream" =>
            /\ reqs[s].pc = "done"
            /\ Resp(s).code = 501
            /\ Resp(s).error = "HTTPException"
            /\ Resp(s).body = None
            /\ reqs[s].client = None
            /\ reqs[s].calls = <<>>
\* A stream request for a workflow that is awaiting answers.
C8_Witness ==
    \E s \in Slots :
        /\ reqs[s].op = "stream" /\ reqs[s].pc = "done"
        /\ Known(reqs[s].workflow_id)
        /\ workflows[reqs[s].workflow_id].status = "awaiting_clarifications"

C9_Order ==
    \A s \in Slots :
        (reqs[s].op = "start" /\ reqs[s].pc = "done") =>
            /\ Calls(s) \subseteq {"connect", "start_workflow", "execute_update"}
            /\ Ok(s) =>
                 /\ Len(reqs[s].calls) >= 2
                 /\ reqs[s].calls[Len(reqs[s].calls) - 1] = "start_workflow"
                 /\ reqs[s].calls[Len(reqs[s].calls)] = "execute_update"
                 /\ Body(s).workflow_id = reqs[s].workflow_id
            /\ Failed(s) => Resp(s).body = None
C9_Processed ==
    \A s \in Slots :
        (reqs[s].op = "start" /\ reqs[s].pc = "execute_update" /\ Steps(s)) =>
            LET id == reqs[s].workflow_id IN
            IF reqs'[s].resp[1].code = 200
            THEN /\ workflows'[id] # NoWf
                 /\ workflows'[id].status # "pending"
                 /\ workflows'[id].original_query = Some(strip(reqs[s].text))
            ELSE workflows' = workflows
\* C9: a start request answered with a workflow id has called start_workflow
\* and then execute_update, and at its return the engine holds the execution
\* of that id with the start update processed and the stripped query in it;
\* a start request that fails returns no id, and when the update fails the
\* handler leaves the execution it started as it is.
C9_StartedMeansProcessed == []C9_Order /\ [][C9_Processed]_vars
\* A start answered with its id, and one whose update failed after the
\* workflow was started.
C9_Witness ==
    \E s, t \in Slots :
        /\ reqs[s].op = "start" /\ Ok(s)
        /\ reqs[t].op = "start" /\ Failed(t)
        /\ reqs[t].calls[Len(reqs[t].calls)] = "execute_update"

\* C10: every workflow the router starts is on the task queue the worker
\* polls.
C10_OnWorkerQueue ==
    \A id \in GeneratedIds :
        workflows[id] # NoWf => workflows[id].task_queue = WorkerTaskQueue
====
